---- MODULE Spec2Model ----
(***************************************************************************)
(* AuraSight AI Diagnostics (backend/main.py): the /predict inference      *)
(* pipeline, the /export_pdf report renderer and the process-wide model.   *)
(*                                                                         *)
(* Abstractions.  Uploaded bytes are represented by what the external      *)
(* libraries return for them: whether cv2.imdecode yields an image, the    *)
(* probability vector the loaded classifier computes for that image, and   *)
(* whether Grad-CAM succeeds on it.  Probabilities are integers in percent *)
(* units.  A PDF object is the sequence of drawing calls it received, page *)
(* by page; FPDF's automatic page breaks are not modelled.                 *)
(***************************************************************************)
EXTENDS Integers, Sequences, FiniteSets, TLC

NumRequests == 2
MaxTime == 2

IMG_SIZE == 224
NUM_CLASSES == 5

Requests == 1..NumRequests
Times == 1..MaxTime

VARIABLES
    started,      \* module import (lines 1-56) has finished
    model,        \* the module-level name `model`
    running,      \* the request whose coroutine holds the event loop, or 0
    pc,           \* position of each request
    input,        \* the request as it arrived: upload or JSON body
    img,          \* local `img` of preprocess_and_predict
    prediction,   \* local `prediction_array`
    heatmap,      \* local `heatmap_base64`
    response,     \* what the transport layer got back
    trace,        \* pipeline states the request has entered, in order
    clock,        \* what datetime.now() returned to the request, or 0
    pdf           \* the most recently constructed PDF object

vars == <<started, model, running, pc, input, img, prediction, heatmap,
          response, trace, clock, pdf>>

None == [type |-> "None"]
Unbound == [type |-> "unbound"]

FromList(t) == [i \in 0..(Len(t) - 1) |-> t[i + 1]]

CLASS_NAMES ==
    FromList(<<"No DR", "Mild", "Moderate", "Severe", "Proliferative DR">>)

(* build_model() followed by load_weights(): softmax head over NUM_CLASSES *)
build_model ==
    [type |-> "Model", input_shape |-> <<IMG_SIZE, IMG_SIZE, 3>>,
     outputs |-> NUM_CLASSES, activation |-> "softmax", weights |-> "loaded"]

(* Probability vectors the classifier may return: unique maximum at the    *)
(* first, a middle and the last class, and tied maxima.                    *)
ProbVectors ==
    { FromList(<<100, 0, 0, 0, 0>>),
      FromList(<<5, 10, 70, 10, 5>>),
      FromList(<<0, 0, 0, 0, 100>>),
      FromList(<<50, 50, 0, 0, 0>>),
      FromList(<<0, 10, 40, 10, 40>>),
      FromList(<<20, 20, 20, 20, 20>>) }

Filenames == {"scan.jpg"}

(* Upload contents, by what the libraries make of them. *)
ImageBytes ==
    [type : {"image"}, probs : ProbVectors, gradcam : {"ok", "raises"}]
UploadBytes == {[type |-> "empty"], [type |-> "text"]} \cup ImageBytes
Uploads == [endpoint : {"/predict"}, filename : Filenames, bytes : UploadBytes]

(* base64 strings a report payload may carry *)
B64Strings == {"b64(jpeg)", "b64(text)", "bad-padding"}
Payloads ==
    [endpoint : {"/export_pdf"}, filename : Filenames,
     diagnosis : {"Moderate"}, confidence : {"70.00%"},
     original_image : B64Strings, heatmap_image : B64Strings]

(***************************************************************************)
(* External library calls, by their results.                               *)
(***************************************************************************)
Raise(err) == [type |-> "raise", error |-> err]

(* cv2.imdecode(np.frombuffer(image_bytes)): an image for image bytes and  *)
(* None for bytes that are no image; on an empty buffer OpenCV builds      *)
(* either return None or raise, so both outcomes are allowed.              *)
imdecode(bytes) ==
    CASE bytes.type = "image" -> {[type |-> "BGR", of |-> bytes]}
      [] bytes.type = "text"  -> {None}
      [] bytes.type = "empty" -> {None, Raise("cv2.error")}

(* cvtColor + resize + /255.0 + expand_dims: raises on None *)
normalize(image) ==
    IF image.type = "BGR"
    THEN [type |-> "tensor", shape |-> <<1, IMG_SIZE, IMG_SIZE, 3>>,
          of |-> image.of]
    ELSE Raise("cv2.error")

(* model.predict(img_batch)[0] *)
predict(m, img_batch) == img_batch.of.probs

(* np.argmax: the first index holding the maximum *)
argmax(p) ==
    CHOOSE i \in DOMAIN p :
        /\ \A j \in DOMAIN p : p[j] <= p[i]
        /\ \A j \in DOMAIN p : j < i => p[j] < p[i]

(* the last index holding the maximum *)
argmax_last(p) ==
    CHOOSE i \in DOMAIN p :
        /\ \A j \in DOMAIN p : p[j] <= p[i]
        /\ \A j \in DOMAIN p : j > i => p[j] < p[i]

ReplaceToLinear(m) == [m EXCEPT !.activation = "linear"]

(* Gradcam(model, model_modifier=ReplaceToLinear(), clone=...), modifying  *)
(* the shared model in place                                               *)
Gradcam_in_place(m, clone) ==
    [shared |-> ReplaceToLinear(m), working |-> ReplaceToLinear(m)]

(* Gradcam(model, model_modifier=ReplaceToLinear(), clone=...): the model  *)
(* the modifier is applied to, and what the shared model is afterwards     *)
Gradcam(m, clone) ==
    IF clone
    THEN [shared |-> m, working |-> ReplaceToLinear(m)]
    ELSE [shared |-> ReplaceToLinear(m), working |-> ReplaceToLinear(m)]

(* generate_gradcam: the base64 JPEG of the 40/60 blend, or the exception  *)
(* of the gradient computation                                             *)
generate_gradcam(m, image_batch, prediction_index) ==
    LET gradcam == Gradcam(m, TRUE) IN
    IF image_batch.of.gradcam = "raises"
    THEN [shared |-> gradcam.shared, result |-> Raise("gradcam")]
    ELSE [shared |-> gradcam.shared,
          result |-> [type |-> "base64", format |-> ".jpg",
                      target |-> prediction_index,
                      blend |-> <<40, 60>>, original |-> image_batch.of]]

(* line 80: the index handed to generate_gradcam *)
predicted_index_attribution(p) == argmax(p)

predicted_index_response_last(p) == argmax_last(p)

(* line 133: the index used for the label and the confidence *)
predicted_index_response(p) == argmax(p)

(***************************************************************************)
(* Report renderer: the FPDF object as the drawing calls it has received.  *)
(***************************************************************************)
(* PDF() bound to the object the previous report was drawn on *)
PDF_shared ==
    IF pdf.type = "PDF" THEN pdf
    ELSE [type |-> "PDF", pages |-> <<>>, font |-> <<"", "", 0>>]

(* PDF(): a new, empty document *)
PDF == [type |-> "PDF", pages |-> <<>>, font |-> <<"", "", 0>>]

set_font(d, family, style, size) == [d EXCEPT !.font = <<family, style, size>>]

Draw(d, element) ==
    [d EXCEPT !.pages[Len(d.pages)] = Append(@, element)]

cell(d, h, txt, align) ==
    Draw(d, [op |-> "cell", h |-> h, txt |-> txt, align |-> align,
             font |-> d.font])

ln(d, h) == Draw(d, [op |-> "ln", h |-> h])

(* class PDF, header() *)
header(d) ==
    ln(cell(set_font(d, "Arial", "B", 15), 10,
            <<"AuraSight AI Diagnostic Report">>, "C"), 10)

(* class PDF, footer(), drawn on page n *)
footer(page, n) ==
    Append(page, [op |-> "cell", h |-> 10, txt |-> <<"Page ", ToString(n)>>,
                  align |-> "C", font |-> <<"Arial", "I", 8>>])

(* add_page(): a new page, opened with header() *)
add_page(d) == header([d EXCEPT !.pages = Append(@, <<>>)])

(* base64.b64decode *)
b64decode(b64_string) ==
    CASE b64_string = "b64(jpeg)"   -> [type |-> "bytes", content |-> "jpeg"]
      [] b64_string = "b64(text)"   -> [type |-> "bytes", content |-> "text"]
      [] b64_string = "bad-padding" -> Raise("binascii.Error")

(* pdf.image(io.BytesIO(image_bytes), w=150): raises when the bytes are    *)
(* no image, leaving the document as it was                                *)
image(d, image_bytes, w) ==
    IF image_bytes.content = "jpeg"
    THEN [ok |-> TRUE,
          doc |-> Draw(d, [op |-> "image", w |-> w, data |-> image_bytes])]
    ELSE [ok |-> FALSE, doc |-> d]

(* one turn of the loop of lines 108-116: try/except around decoding, the  *)
(* caption and the image                                                   *)
embed(d, title, b64_string) ==
    LET image_bytes == b64decode(b64_string) IN
    IF image_bytes.type = "raise" THEN d
    ELSE LET captioned ==
                 cell(set_font(d, "Arial", "B", 14), 10, <<title>>, "L")
             drawn == image(captioned, image_bytes, 150)
         IN  IF drawn.ok THEN ln(drawn.doc, 10) ELSE captioned

(* pdf.output(): every page closed with its footer *)
output(d) ==
    [type |-> "pdf_bytes",
     pages |-> [n \in 1..Len(d.pages) |-> footer(d.pages[n], n)]]

(* create_pdf_report(data) at render time now: the PDF object once drawn   *)
create_pdf_object(data, now) ==
    LET p0 == add_page(PDF)
        p1 == cell(set_font(p0, "Arial", "B", 12), 10,
                   <<"Report Date: ", ToString(now)>>, "L")
        p2 == ln(cell(p1, 10, <<"Patient File: ", data.filename>>, "L"), 5)
        p3 == cell(set_font(p2, "Arial", "B", 14), 10,
                   <<"Diagnosis Result">>, "L")
        p4 == cell(set_font(p3, "Arial", "", 12), 10,
                   <<"Condition: ", data.diagnosis>>, "L")
        p5 == ln(cell(p4, 10, <<"Confidence: ", data.confidence>>, "L"), 10)
        p6 == embed(p5, "Original Scan", data.original_image)
    IN  embed(p6, "Model Focus Heatmap", data.heatmap_image)

create_pdf_report(data, now) == output(create_pdf_object(data, now))

(***************************************************************************)
(* The process: module import, then requests served on one event loop.     *)
(***************************************************************************)
PipelineStates ==
    <<"Received", "Decoded", "Normalized", "Classified", "Explained",
      "Packaged">>

Init ==
    /\ started = FALSE
    /\ model = Unbound
    /\ running = 0
    /\ pc = [r \in Requests |-> "idle"]
    /\ input = [r \in Requests |-> None]
    /\ img = [r \in Requests |-> None]
    /\ prediction = [r \in Requests |-> None]
    /\ heatmap = [r \in Requests |-> None]
    /\ response = [r \in Requests |-> None]
    /\ trace = [r \in Requests |-> <<>>]
    /\ clock = [r \in Requests |-> 0]
    /\ pdf = None

(* lines 48-54: model = build_model() with weights, or None when loading   *)
(* raised                                                                  *)
Startup ==
    /\ ~started
    /\ \E loaded \in BOOLEAN :
           model' = IF loaded THEN build_model ELSE None
    /\ started' = TRUE
    /\ UNCHANGED <<running, pc, input, img, prediction, heatmap, response,
                   trace, clock, pdf>>

(* line 72 also true once some request has failed *)
model_is_None_or_failed ==
    \/ model = None
    \/ \E r \in Requests : response[r].type = "fault"

(* line 72: `if model is None` *)
model_is_None == model = None

Returned(body) == [type |-> "returned", body |-> body]

(* the handler of request r ends: its locals are gone, the loop is free *)
Finish(r, resp) ==
    /\ response' = [response EXCEPT ![r] = resp]
    /\ pc' = [pc EXCEPT ![r] = "done"]
    /\ running' = 0
    /\ img' = [img EXCEPT ![r] = None]
    /\ prediction' = [prediction EXCEPT ![r] = None]
    /\ heatmap' = [heatmap EXCEPT ![r] = None]

(* an exception leaves predict_image unhandled *)
Fault(r, err) == Finish(r, [type |-> "fault", error |-> err])

Enter(r, state) == trace' = [trace EXCEPT ![r] = Append(@, state)]

(* lines 127-128: predict_image starts and suspends in `await file.read()` *)
predict_image(r) ==
    /\ started
    /\ running = 0
    /\ pc[r] = "idle"
    /\ \E file \in Uploads : input' = [input EXCEPT ![r] = file]
    /\ pc' = [pc EXCEPT ![r] = "reading"]
    /\ UNCHANGED <<started, model, running, img, prediction, heatmap,
                   response, trace, clock, pdf>>

(* the read completes while another handler is still running *)
ReadDone_preempting(r) ==
    /\ pc[r] = "reading"
    /\ running' = r
    /\ pc' = [pc EXCEPT ![r] = "received"]
    /\ Enter(r, "Received")
    /\ UNCHANGED <<started, model, input, img, prediction, heatmap,
                   response, clock, pdf>>

(* line 128: the read completes and the loop resumes the coroutine, which  *)
(* from here on runs without suspending                                    *)
ReadDone(r) ==
    /\ pc[r] = "reading"
    /\ running = 0
    /\ running' = r
    /\ pc' = [pc EXCEPT ![r] = "received"]
    /\ Enter(r, "Received")
    /\ UNCHANGED <<started, model, input, img, prediction, heatmap,
                   response, clock, pdf>>

(* the model check made only after decoding *)
ModelAbsent_after_decode(r) ==
    /\ pc[r] = "received"
    /\ model_is_None
    /\ IF input[r].bytes.type = "image"
       THEN Finish(r, Returned([error |->
                                "Model not loaded or prediction failed"]))
       ELSE Fault(r, "cv2.error")
    /\ UNCHANGED <<started, model, input, trace, clock, pdf>>

(* lines 129, 72, 130-131: preprocess_and_predict returns None and the     *)
(* handler answers with the error body                                     *)
ModelAbsent(r) ==
    /\ pc[r] = "received"
    /\ model_is_None
    /\ Finish(r, Returned([error |-> "Model not loaded or prediction failed"]))
    /\ UNCHANGED <<started, model, input, trace, clock, pdf>>

(* a failed decode is tried again from the start *)
Decode_retry(r) ==
    /\ pc[r] = "received"
    /\ ~model_is_None
    /\ \E out \in imdecode(input[r].bytes) :
           IF out.type = "BGR"
           THEN /\ img' = [img EXCEPT ![r] = out]
                /\ pc' = [pc EXCEPT ![r] = "decoded"]
                /\ Enter(r, "Decoded")
           ELSE /\ Enter(r, "Received")
                /\ UNCHANGED <<img, pc>>
    /\ UNCHANGED <<started, model, running, input, prediction, heatmap,
                   response, clock, pdf>>

(* lines 73-74: img = cv2.imdecode(...), which may be None *)
Decode(r) ==
    /\ pc[r] = "received"
    /\ ~model_is_None
    /\ \E out \in imdecode(input[r].bytes) :
           IF out.type = "raise"
           THEN /\ Fault(r, out.error)
                /\ UNCHANGED trace
           ELSE /\ img' = [img EXCEPT ![r] = out]
                /\ pc' = [pc EXCEPT ![r] = "decoded"]
                /\ IF out.type = "BGR" THEN Enter(r, "Decoded")
                                       ELSE UNCHANGED trace
                /\ UNCHANGED <<running, prediction, heatmap, response>>
    /\ UNCHANGED <<started, model, input, clock, pdf>>

(* lines 75-78: cvtColor, resize, scale, batch; cvtColor raises on None *)
Normalize(r) ==
    /\ pc[r] = "decoded"
    /\ LET img_batch == normalize(img[r]) IN
       IF img_batch.type = "raise"
       THEN /\ Fault(r, img_batch.error)
            /\ UNCHANGED trace
       ELSE /\ img' = [img EXCEPT ![r] = img_batch]
            /\ pc' = [pc EXCEPT ![r] = "normalized"]
            /\ Enter(r, "Normalized")
            /\ UNCHANGED <<running, prediction, heatmap, response>>
    /\ UNCHANGED <<started, model, input, clock, pdf>>

(* line 79: prediction_array = model.predict(img_batch)[0] *)
Classify(r) ==
    /\ pc[r] = "normalized"
    /\ prediction' = [prediction EXCEPT ![r] = predict(model, img[r])]
    /\ pc' = [pc EXCEPT ![r] = "classified"]
    /\ Enter(r, "Classified")
    /\ UNCHANGED <<started, model, running, input, img, heatmap, response,
                   clock, pdf>>

(* lines 80-81: predicted_index and generate_gradcam; its exception is     *)
(* caught nowhere                                                          *)
Explain(r) ==
    /\ pc[r] = "classified"
    /\ LET call == generate_gradcam(model, img[r],
                       predicted_index_attribution(prediction[r])) IN
       /\ model' = call.shared
       /\ IF call.result.type = "raise"
          THEN /\ Fault(r, call.result.error)
               /\ UNCHANGED trace
          ELSE /\ heatmap' = [heatmap EXCEPT ![r] = call.result]
               /\ pc' = [pc EXCEPT ![r] = "explained"]
               /\ Enter(r, "Explained")
               /\ UNCHANGED <<running, img, prediction, response>>
    /\ UNCHANGED <<started, input, clock, pdf>>

(* lines 82, 132-141: the result is returned and packaged.  The vector is  *)
(* kept in percent units, so `* 100` is the identity here.                 *)
Package(r) ==
    /\ pc[r] = "explained"
    /\ LET prediction_array == prediction[r]
           predicted_index == predicted_index_response(prediction_array)
           confidence == prediction_array[predicted_index]
       IN  Finish(r, Returned(
               [filename |-> input[r].filename,
                diagnosis |-> CLASS_NAMES[predicted_index],
                confidence |-> [value |-> confidence, suffix |-> "%"],
                probabilities |-> prediction_array,
                heatmap_image |-> heatmap[r]]))
    /\ Enter(r, "Packaged")
    /\ UNCHANGED <<started, model, input, clock, pdf>>

(* lines 143-146: export_pdf has no await and runs in one piece *)
export_pdf(r) ==
    /\ started
    /\ running = 0
    /\ pc[r] = "idle"
    /\ \E data \in Payloads, now \in Times :
           /\ input' = [input EXCEPT ![r] = data]
           /\ clock' = [clock EXCEPT ![r] = now]
           /\ pdf' = create_pdf_object(data, now)
           /\ response' = [response EXCEPT ![r] =
                  [type |-> "returned", media_type |-> "application/pdf",
                   disposition |-> "attachment;filename=AuraSight_Report.pdf",
                   body |-> create_pdf_report(data, now)]]
    /\ pc' = [pc EXCEPT ![r] = "done"]
    /\ UNCHANGED <<started, model, running, img, prediction, heatmap, trace>>

Next ==
    \/ Startup
    \/ \E r \in Requests : predict_image(r)
    \/ \E r \in Requests : ReadDone(r)
    \/ \E r \in Requests : ModelAbsent(r)
    \/ \E r \in Requests : Decode(r)
    \/ \E r \in Requests : Normalize(r)
    \/ \E r \in Requests : Classify(r)
    \/ \E r \in Requests : Explain(r)
    \/ \E r \in Requests : Package(r)
    \/ \E r \in Requests : export_pdf(r)

Spec == Init /\ [][Next]_vars

(***************************************************************************)
(* Observations used by the properties.                                    *)
(***************************************************************************)
ModelUnavailable == Returned([error |-> "Model not loaded or prediction failed"])

DonePredict(r) == pc[r] = "done" /\ input[r].endpoint = "/predict"

DoneExport(r) == pc[r] = "done" /\ input[r].endpoint = "/export_pdf"

IsErrorResult(resp) ==
    resp.type = "returned" /\ "error" \in DOMAIN resp.body

IsPackaged(resp) ==
    resp.type = "returned" /\ "diagnosis" \in DOMAIN resp.body

IsPrefix(s, t) ==
    Len(s) <= Len(t) /\ \A i \in 1..Len(s) : s[i] = t[i]

NoRepeat(s) == \A i, j \in 1..Len(s) : i # j => s[i] # s[j]

InFlight == {"received", "decoded", "normalized", "classified", "explained"}

(* C1: with the Classifier absent, every finished /predict request, on any *)
(* bytes, was answered with the model-unavailable error result and never   *)
(* with an unhandled fault.                                                *)
C1_AbsentModelUnavailable ==
    \A r \in Requests :
        (DonePredict(r) /\ model = None) => response[r] = ModelUnavailable

C1_Witness ==
    \E r \in Requests :
        /\ DonePredict(r)
        /\ model = None
        /\ input[r].bytes.type = "text"
        /\ response[r] = ModelUnavailable

(* C2: with the Classifier present, a finished /predict request whose      *)
(* bytes are no valid image was answered with a structured error result,   *)
(* not with an unhandled fault, and was never classified or explained.     *)
C2_DecodeErrorResult ==
    \A r \in Requests :
        (DonePredict(r) /\ model # None /\ input[r].bytes.type # "image")
            => /\ IsErrorResult(response[r])
               /\ \A i \in 1..Len(trace[r]) :
                      trace[r][i] \notin {"Classified", "Explained"}

(* C3: in every packaged result the attribution target, the index of the   *)
(* diagnosis label and the index of the confidence value are one index,    *)
(* and that index holds a maximum of the probability vector.               *)
C3_OneArgmax ==
    \A r \in Requests :
        (DonePredict(r) /\ IsPackaged(response[r])) =>
            LET body == response[r].body
                p == body.probabilities
                i == body.heatmap_image.target
            IN  /\ i \in DOMAIN p
                /\ body.diagnosis = CLASS_NAMES[i]
                /\ body.confidence.value = p[i]
                /\ \A j \in DOMAIN p : p[j] <= p[i]

C3_Witness ==
    \E r \in Requests :
        /\ DonePredict(r)
        /\ IsPackaged(response[r])
        /\ response[r].body.probabilities = FromList(<<0, 10, 40, 10, 40>>)
        /\ response[r].body.diagnosis = "Moderate"

(* C4, as stated: states are entered in pipeline order, and the            *)
(* model-unavailable short-circuit is taken only once the input has been   *)
(* decoded and normalized.                                                 *)
C4_ShortCircuitAtClassified ==
    \A r \in Requests :
        /\ IsPrefix(trace[r], PipelineStates)
        /\ (pc[r] = "done" /\ response[r] = ModelUnavailable)
               => (Len(trace[r]) >= 3 /\ trace[r][3] = "Normalized")

(* C4, amended: states are entered in pipeline order without skipping or   *)
(* revisiting, up to where the request ends; a packaged request has        *)
(* entered all six; the model-unavailable short-circuit is taken right     *)
(* after Received, before any decoding, whatever the bytes.                *)
C4_ShortCircuitAtReceived ==
    \A r \in Requests :
        /\ IsPrefix(trace[r], PipelineStates)
        /\ (pc[r] = "done" /\ IsPackaged(response[r]))
               => trace[r] = PipelineStates
        /\ (pc[r] = "done" /\ response[r] = ModelUnavailable)
               => trace[r] = <<"Received">>
        /\ (pc[r] = "done" /\ input[r].endpoint = "/predict" /\ model = None)
               => response[r] = ModelUnavailable

C4_Witness ==
    \E r \in Requests :
        /\ DonePredict(r)
        /\ input[r].bytes.type = "empty"
        /\ response[r] = ModelUnavailable
        /\ trace[r] = <<"Received">>

Embeddable(b64_string) ==
    LET image_bytes == b64decode(b64_string) IN
    image_bytes.type = "bytes" /\ image_bytes.content = "jpeg"

HasCell(doc, txt) ==
    \E n \in 1..Len(doc.pages) : \E k \in 1..Len(doc.pages[n]) :
        doc.pages[n][k].op = "cell" /\ doc.pages[n][k].txt = txt

HasImage(doc, b64_string) ==
    \E n \in 1..Len(doc.pages) : \E k \in 1..Len(doc.pages[n]) :
        /\ doc.pages[n][k].op = "image"
        /\ doc.pages[n][k].data = b64decode(b64_string)

(* C5: a report with exactly one image that cannot be embedded still has   *)
(* the title, date, filename, diagnosis and confidence, the other image,   *)
(* and the captions of both images.                                        *)
C5_BothCaptions ==
    \A r \in Requests :
        DoneExport(r) =>
            LET data == input[r]
                doc == response[r].body
                bad == {f \in {"original_image", "heatmap_image"} :
                            ~Embeddable(data[f])}
            IN  Cardinality(bad) = 1 =>
                    /\ HasCell(doc, <<"AuraSight AI Diagnostic Report">>)
                    /\ HasCell(doc, <<"Report Date: ", ToString(clock[r])>>)
                    /\ HasCell(doc, <<"Patient File: ", data.filename>>)
                    /\ HasCell(doc, <<"Condition: ", data.diagnosis>>)
                    /\ HasCell(doc, <<"Confidence: ", data.confidence>>)
                    /\ \A f \in {"original_image", "heatmap_image"} \ bad :
                           HasImage(doc, data[f])
                    /\ HasCell(doc, <<"Original Scan">>)
                    /\ HasCell(doc, <<"Model Focus Heatmap">>)

(* C6: a request that was classified and whose attribution failed was      *)
(* answered with a structured error result: neither packaged nor an        *)
(* unhandled fault.                                                        *)
C6_AttributionErrorResult ==
    \A r \in Requests :
        (/\ DonePredict(r)
         /\ input[r].bytes.type = "image"
         /\ input[r].bytes.gradcam = "raises"
         /\ Len(trace[r]) >= 4)
            => IsErrorResult(response[r])

(* C7: `model` is unbound until startup binds it to the loaded model or to *)
(* None, and no step after startup changes it.                             *)
C7_ModelAssignedOnce ==
    [][/\ started => model' = model
       /\ ~started => model = Unbound
       /\ started' => model' \in {build_model, None}]_vars

C7_Witness ==
    \E r1, r2 \in Requests :
        /\ DonePredict(r1) /\ IsPackaged(response[r1])
        /\ DoneExport(r2)
        /\ model = build_model

(* C8: no pipeline state is entered twice by a request, and two finished   *)
(* /predict requests with the same upload got the same answer, whatever    *)
(* happened to other requests.                                             *)
C8_Independent ==
    /\ \A r \in Requests : NoRepeat(trace[r])
    /\ \A r1, r2 \in Requests :
           (DonePredict(r1) /\ DonePredict(r2) /\ input[r1] = input[r2])
               => response[r1] = response[r2]

C8_Witness ==
    \E r1, r2 \in Requests :
        /\ DonePredict(r1) /\ DonePredict(r2)
        /\ response[r1].type = "fault"
        /\ IsPackaged(response[r2])

(* C9: two finished reports rendered from the same payload at the same     *)
(* render time are the same document.                                      *)
C9_SameReport ==
    \A r1, r2 \in Requests :
        (/\ DoneExport(r1) /\ DoneExport(r2)
         /\ input[r1] = input[r2] /\ clock[r1] = clock[r2])
            => response[r1] = response[r2]

C9_Witness ==
    \E r1, r2 \in Requests :
        /\ r1 # r2
        /\ DoneExport(r1) /\ DoneExport(r2)
        /\ input[r1] = input[r2] /\ clock[r1] = clock[r2]
        /\ Len(response[r1].body.pages) = 1

(* C10: at most one request is between the resumption of predict_image     *)
(* after the upload read and its return, and it is the one that holds the  *)
(* event loop.                                                             *)
C10_NoOverlap ==
    /\ Cardinality({r \in Requests : pc[r] \in InFlight}) <= 1
    /\ \A r \in Requests : pc[r] \in InFlight => running = r

C10_Witness ==
    \E r1, r2 \in Requests :
        /\ pc[r1] = "classified"
        /\ pc[r2] = "reading"

====
